---- MODULE Spec2Model ----
(***************************************************************************)
(* Model of the hh.ru job parser: the parallel browser apply pipeline of   *)
(* src/src/selenium_utils.py and the retrieval pipeline of                 *)
(* src/src/Request_func.py with its caller in src/src/ui_utils.py.         *)
(***************************************************************************)
EXTENDS Integers, Sequences, FiniteSets, TLC

\* ------------------------------------------------------------------ bounds
MaxVacancies == 3      \* longest record list of an apply run
MaxDrivers == 2        \* largest session count of an apply run
PerPage == 2           \* settings.per_page (PER_PAGE, 100 by default), scaled down
MaxFound == 5          \* largest "found" the service reports
MaxResults == 3        \* largest max_vacancies asked for
MaxConcurrent == 2     \* largest settings.max_concurrent (MAX_CONCURRENT_REQUESTS)
MaxListLen == 10       \* longest record list that is only partitioned
MaxSessions == 3       \* largest session count of a list that is only partitioned

\* ------------------------------------------------------------------ state
VARIABLES
    \* apply run: inputs and environment
    vacancies,              \* the record list handed to the apply run (ids)
    MAX_PARALLEL_DRIVERS,   \* the session count argument
    template_file,          \* "ok" | "missing": the cover-letter file on disk
    \* apply run: apply_to_vacancies_parallel_batched
    mainpc,                 \* "start" | "gather" | "done" | "raised"
    batches,                \* the list of batches, <<>> before partitioning
    final_stats,            \* the shared statistics dict
    reported,               \* the statistics printed at the end
    \* apply run: one apply_to_vacancy_batch thread per batch
    wpc,                    \* position of each worker
    driver,                 \* the session each worker holds, 0 = none
    sessions,               \* the browser sessions that are open
    quits,                  \* sequence of sessions on which quit() was called
    users,                  \* <<session, worker>>: worker drove that session
    idx,                    \* vacancies of the batch already classified
    counters,               \* the worker's local applied/.../errors
    mi,                     \* which += of the finally block comes next
    tmp,                    \* value read by the += in progress
    log,                    \* ids handed to process_single_vacancy, in order
    acts,                   \* page actions done for the vacancy in progress
    last,                   \* what the step just taken classified, if it did: worker,
                            \* id, status, actions done, whether an exception was caught
    template_cache,         \* lru_cache of load_letter_template
    file_reads,             \* how often the template file was opened
    \* retrieval: the storage and the caller handle_search_and_save
    processed,              \* ProcessedIdSet: the ids get_all_processed_ids returns
    table,                  \* rows of the vacancies table
    hpc,                    \* position of handle_search_and_save
    run,                    \* "first" | "second": which search of the session
    outs,                   \* the lists returned by the finished searches
    \* retrieval: get_vacancies_async
    max_vacancies,          \* argument
    required_skills,        \* argument: None or a list of skills
    rpc,                    \* position in get_vacancies_async
    seen_ids,               \* snapshot of the processed ids
    total_found,
    page,
    data,
    processed_count,
    fetched,                \* the page as fetch_page returned it
    deduped,                \* the page after the seen_ids filter
    survivors,              \* the page after the exclude_words filter
    details,                \* what fetch_details_batch returned
    result,                 \* the returned list
    prev_count,             \* len(data) when the last finished iteration ended
    probed,                 \* what get_total_count returned
    captcha,                \* CaptchaRequired was caught (the error of line 347)
    failed,                 \* a page or detail call was answered with a status
                            \* that is neither 200 nor the captcha 403
    page_requests,          \* the page and per_page of every page request sent
    probe_status,           \* status of the answer to the probe, 0 before it
    detail_requests,        \* how many detail requests were sent
    sent,                   \* how many requests each fetch_details coroutine sent
    \* retrieval: the detail calls of one fetch_details_batch
    max_concurrent,         \* settings.max_concurrent
    permits,                \* value of the semaphore
    dcall                   \* position of each fetch_details coroutine

applyVars == <<vacancies, MAX_PARALLEL_DRIVERS, template_file, mainpc, batches,
               final_stats, reported, wpc, driver, sessions, quits, users, idx,
               counters, mi, tmp, log, acts, last, template_cache, file_reads>>

histVars == <<prev_count, probed, captcha, failed>>

gateVars == <<max_concurrent, permits, dcall>>

reqVars == <<page_requests, probe_status, detail_requests, sent>>

searchVars == <<processed, table, hpc, run, outs, max_vacancies, required_skills, rpc,
                seen_ids, total_found, page, data, processed_count, fetched, deduped,
                survivors, details, result, histVars, gateVars, reqVars>>

vars == <<applyVars, searchVars>>

\* ---------------------------------------------------------------- helpers
Min(a, b) == IF a < b THEN a ELSE b

Max(a, b) == IF a > b THEN a ELSE b

Range(s) == {s[i] : i \in DOMAIN s}

RECURSIVE SumSeq(_)
SumSeq(s) == IF s = <<>> THEN 0 ELSE Head(s) + SumSeq(Tail(s))

Keys == <<"applied", "already_applied", "rejected", "errors">>

ZeroStats == [key \in Range(Keys) |-> 0]

StatsTotal(st) == st["applied"] + st["already_applied"] + st["rejected"] + st["errors"]

\* ------------------------------------------------------------ partitioning
\* batch_size = (len(vacancies) + MAX_PARALLEL_DRIVERS - 1) // MAX_PARALLEL_DRIVERS
BatchSizeFloor(len, k) == IF len = 0 THEN 0 ELSE Max(1, len \div k)
BatchSize(len, k) == (len + k - 1) \div k

\* range(0, n, step) for step > 0, as the sequence of its values
PyRange(n, step) == [j \in 1..((n + step - 1) \div step) |-> (j - 1) * step]

\* s[i:j] for 0 <= i <= j: the slice is clipped at the end of the list
SliceShort(s, i, j) == SubSeq(s, i + 1, Min(j, Len(s)) - 1)
SliceLong(s, i, j) == SubSeq(s, i + 1, Len(s))
Slice(s, i, j) == SubSeq(s, i + 1, Min(j, Len(s)))

\* [vacancies[i:i + batch_size] for i in range(0, len(vacancies), batch_size)]
MakeBatches(v, k) ==
    LET batch_size == BatchSize(Len(v), k)
        starts == PyRange(Len(v), batch_size)
    IN  [j \in DOMAIN starts |-> Slice(v, starts[j], starts[j] + batch_size)]

Workers == DOMAIN batches

\* No page was looked at
NoPage == [already |-> FALSE, rejected |-> FALSE, apply |-> "none", relocate |-> FALSE,
           find |-> "none"]

NoLast == [worker |-> 0, id |-> 0, status |-> "none", acts |-> <<>>, raised |-> FALSE,
           shown |-> NoPage, form |-> "none"]

\* ------------------------------------------------------------- apply: Init
\* The record lists of up to n records, and what exists before line 346 ran
Lists(n) == {[i \in 1..m |-> i] : m \in 0..n}

NotStarted ==
    /\ batches = <<>>
    /\ final_stats = ZeroStats
    /\ reported = ZeroStats
    /\ wpc = <<>>
    /\ driver = <<>>
    /\ sessions = {}
    /\ quits = <<>>
    /\ users = {}
    /\ idx = <<>>
    /\ counters = <<>>
    /\ mi = <<>>
    /\ tmp = <<>>
    /\ log = <<>>
    /\ acts = <<>>
    /\ last = NoLast
    /\ template_cache = "unset"
    /\ file_reads = 0

ApplyStart ==
    /\ vacancies \in Lists(MaxVacancies)
    /\ MAX_PARALLEL_DRIVERS \in 1..MaxDrivers
    /\ template_file \in {"ok", "missing"}
    /\ mainpc = "start"
    /\ batches = <<>>
    /\ final_stats = ZeroStats
    /\ reported = ZeroStats
    /\ wpc = <<>>
    /\ driver = <<>>
    /\ sessions = {}
    /\ quits = <<>>
    /\ users = {}
    /\ idx = <<>>
    /\ counters = <<>>
    /\ mi = <<>>
    /\ tmp = <<>>
    /\ log = <<>>
    /\ acts = <<>>
    /\ last = NoLast
    /\ template_cache = "unset"
    /\ file_reads = 0

\* --------------------------------------- apply_to_vacancies_parallel_batched
\* Lines 346-358: partition, create final_stats, start one thread per batch.
\* range() with a step of 0 (an empty list) raises ValueError.
Partition ==
    /\ mainpc = "start"
    /\ IF BatchSize(Len(vacancies), MAX_PARALLEL_DRIVERS) = 0
       THEN /\ mainpc' = "raised"
            /\ UNCHANGED <<batches, wpc, driver, idx, counters, mi, tmp, log, acts>>
       ELSE /\ mainpc' = "gather"
            /\ batches' = MakeBatches(vacancies, MAX_PARALLEL_DRIVERS)
            /\ wpc' = [w \in DOMAIN batches' |-> "start"]
            /\ driver' = [w \in DOMAIN batches' |-> 0]
            /\ idx' = [w \in DOMAIN batches' |-> 0]
            /\ counters' = [w \in DOMAIN batches' |-> ZeroStats]
            /\ mi' = [w \in DOMAIN batches' |-> 1]
            /\ tmp' = [w \in DOMAIN batches' |-> 0]
            /\ log' = [w \in DOMAIN batches' |-> <<>>]
            /\ acts' = [w \in DOMAIN batches' |-> <<>>]
    /\ final_stats' = ZeroStats
    /\ last' = NoLast
    /\ UNCHANGED <<vacancies, MAX_PARALLEL_DRIVERS, template_file, reported, sessions,
                   quits, users, template_cache, file_reads, searchVars>>

\* Lines 358-365: gather returned normally, the final statistics are printed.
Report ==
    /\ mainpc = "gather"
    /\ \A w \in Workers : wpc[w] = "done"
    /\ mainpc' = "done"
    /\ reported' = final_stats
    /\ last' = NoLast
    /\ UNCHANGED <<vacancies, MAX_PARALLEL_DRIVERS, template_file, batches, final_stats,
                   wpc, driver, sessions, quits, users, idx, counters, mi, tmp, log,
                   acts, template_cache, file_reads, searchVars>>

\* Line 358: gather (no return_exceptions) re-raises the first exception of a
\* thread; the other threads are not cancelled and keep running.
GatherRaises ==
    /\ mainpc = "gather"
    /\ \E w \in Workers : wpc[w] = "failed"
    /\ mainpc' = "raised"
    /\ last' = NoLast
    /\ UNCHANGED <<vacancies, MAX_PARALLEL_DRIVERS, template_file, batches, final_stats,
                   reported, wpc, driver, sessions, quits, users, idx, counters, mi, tmp,
                   log, acts, template_cache, file_reads, searchVars>>

\* ------------------------------------------------- apply_to_vacancy_batch
Batch(w) == batches[w]

\* webdriver.Chrome(...) starts a browser of its own for the calling worker
SharedSession(w) == 1
NewSession(w) == w

Drove(w) == users \cup {<<driver[w], w>>}

\* Line 293: the browser starts, or webdriver.Chrome raises (outside the try).
OpenSession(w) ==
    /\ wpc[w] = "start"
    /\ \E ok \in BOOLEAN :
        IF ok
        THEN /\ driver' = [driver EXCEPT ![w] = NewSession(w)]
             /\ sessions' = sessions \cup {NewSession(w)}
             /\ wpc' = [wpc EXCEPT ![w] = "cookies"]
        ELSE /\ wpc' = [wpc EXCEPT ![w] = "failed"]
             /\ UNCHANGED <<driver, sessions>>
    /\ last' = NoLast
    /\ UNCHANGED <<vacancies, MAX_PARALLEL_DRIVERS, template_file, mainpc, batches,
                   final_stats, reported, quits, users, idx, counters, mi, tmp, log,
                   acts, template_cache, file_reads, searchVars>>

\* Lines 294, 66-80: load_cookies, still outside the try: driver.get, open and
\* pickle.load of cookies.pkl, add_cookie or refresh may raise.
\* The loop of line 301 starts right after it.
LoopEntry(w, n) == IF n < Len(Batch(w)) THEN "get" ELSE "mread"

LoadCookies(w) ==
    /\ wpc[w] = "cookies"
    /\ users' = Drove(w)
    /\ \E ok \in BOOLEAN :
        wpc' = [wpc EXCEPT ![w] = IF ok THEN LoopEntry(w, 0) ELSE "failed"]
    /\ last' = NoLast
    /\ UNCHANGED <<vacancies, MAX_PARALLEL_DRIVERS, template_file, mainpc, batches,
                   final_stats, reported, driver, sessions, quits, idx, counters, mi,
                   tmp, log, acts, template_cache, file_reads, searchVars>>

\* Lines 305-312: the status decides which local counter is incremented.
Bucket(status) ==
    IF status = "applied" THEN "applied"
    ELSE IF status = "already_applied" THEN "already_applied"
    ELSE IF status = "rejected" THEN "rejected"
    ELSE "errors"

\* process_single_vacancy returned (success, status, message): lines 302-319,
\* then the next iteration of the for loop or, after the last, the finally block.
AbortBatch(w, n) == "mread"
AfterVacancy(w, n) == LoopEntry(w, n)

\* Lines 273-274: except Exception turns an exception into ("error")
Caught(status) == IF status = "raise" THEN "error" ELSE status

Classified(w, outcome, done, shown, form) ==
    LET status == Caught(outcome) IN
    /\ counters' = [counters EXCEPT ![w][Bucket(status)] = @ + 1]
    /\ idx' = [idx EXCEPT ![w] = @ + 1]
    /\ last' = [worker |-> w, id |-> Batch(w)[idx[w] + 1], status |-> status,
                 acts |-> done, raised |-> (outcome = "raise"),
                 shown |-> shown, form |-> form]
    /\ acts' = [acts EXCEPT ![w] = <<>>]
    /\ wpc' = [wpc EXCEPT ![w] = AfterVacancy(w, idx[w] + 1)]

\* Lines 259-260, 273-274: process_single_vacancy is entered with the next
\* vacancy of the batch; driver.get loads the page or raises, and the
\* except Exception turns that into ("error").
Get(w) ==
    /\ wpc[w] = "get"
    /\ users' = Drove(w)
    /\ log' = [log EXCEPT ![w] = Append(@, Batch(w)[idx[w] + 1])]
    /\ \E loaded \in BOOLEAN :
        IF loaded
        THEN /\ wpc' = [wpc EXCEPT ![w] = "check"]
             /\ last' = NoLast
             /\ UNCHANGED <<counters, idx, acts>>
        ELSE Classified(w, "raise", <<>>, NoPage, "none")
    /\ UNCHANGED <<vacancies, MAX_PARALLEL_DRIVERS, template_file, mainpc, batches,
                   final_stats, reported, driver, sessions, quits, mi, tmp,
                   template_cache, file_reads, searchVars>>

\* ------------------------------------------------------ check_and_click_apply
\* What the page shows: the two skip markers, the apply control and the
\* optional relocation control; "raises" is a WebDriverException that is not a
\* TimeoutException.
Pages ==
    {shown \in [already : BOOLEAN, rejected : BOOLEAN,
                apply : {"clickable", "timeout", "raises"}, relocate : BOOLEAN,
                find : {"ok", "raises"}] :
        shown.relocate => shown.apply = "clickable"}

\* Lines 102-146: <<success, status, actions done>>; status "raise" stands for
\* an exception leaving the function.
click_regardless(shown) ==
    IF shown.find = "raises" THEN <<FALSE, "raise", <<>>>>
    ELSE IF shown.apply = "clickable" THEN <<TRUE, "applied", <<"apply_click">>>>
    ELSE IF shown.already THEN <<FALSE, "already_applied", <<>>>>
    ELSE IF shown.rejected THEN <<FALSE, "rejected", <<>>>>
    ELSE <<FALSE, "error", <<>>>>
timeout_as_already(shown) ==
    IF shown.find = "raises" THEN <<FALSE, "raise", <<>>>>
    ELSE IF shown.already THEN <<FALSE, "already_applied", <<>>>>
    ELSE IF shown.rejected THEN <<FALSE, "rejected", <<>>>>
    ELSE IF shown.apply = "timeout" THEN <<FALSE, "already_applied", <<>>>>
    ELSE IF shown.apply = "raises" THEN <<FALSE, "raise", <<>>>>
    ELSE <<TRUE, "applied", <<"apply_click">>>>
check_and_click_apply(shown) ==
    IF shown.find = "raises" THEN <<FALSE, "raise", <<>>>>
    ELSE IF shown.already THEN <<FALSE, "already_applied", <<>>>>
    ELSE IF shown.rejected THEN <<FALSE, "rejected", <<>>>>
    ELSE IF shown.apply = "timeout" THEN <<FALSE, "error", <<>>>>
    ELSE IF shown.apply = "raises" THEN <<FALSE, "raise", <<>>>>
    ELSE IF shown.relocate THEN <<TRUE, "applied", <<"apply_click", "relocate_click">>>>
    ELSE <<TRUE, "applied", <<"apply_click">>>>

\* Lines 263-274 of process_single_vacancy: the skip/apply decision.
CheckAndClick(w) ==
    /\ wpc[w] = "check"
    /\ users' = Drove(w)
    /\ \E shown \in Pages :
        LET r == check_and_click_apply(shown) IN
        IF r[1]
        THEN /\ acts' = [acts EXCEPT ![w] = r[3]]
             /\ wpc' = [wpc EXCEPT ![w] = "fill"]
             /\ last' = [NoLast EXCEPT !.worker = w, !.acts = r[3], !.shown = shown]
             /\ UNCHANGED <<counters, idx>>
        ELSE Classified(w, r[2], r[3], shown, "none")
    /\ UNCHANGED <<vacancies, MAX_PARALLEL_DRIVERS, template_file, mainpc, batches,
                   final_stats, reported, driver, sessions, quits, mi, tmp, log,
                   template_cache, file_reads, searchVars>>

\* ------------------------------------------------ cover letter and submit
\* Lines 165-168: the text of the file, or None on any error
read_template == IF template_file = "ok" THEN "text" ELSE "None"

\* Lines 149-168: load_letter_template behind lru_cache: the file is read on a
\* cache miss and the result (the text, or None on any error) is cached.
load_letter_template ==
    IF template_cache = "unset"
    THEN read_template
    ELSE template_cache

\* Lines 171-185: template.format(...) if template else None
letter_always == "letter"
generate_cover_letter == IF load_letter_template = "text" THEN "letter" ELSE "None"

Forms == {"label_timeout", "textarea_missing", "submit_timeout", "submit_raises", "ok"}

\* Lines 208-234: <<success, status, actions done, template requested>>
fill_then_rollback(form) ==
    IF form = "ok" /\ generate_cover_letter # "None"
    THEN <<TRUE, "applied", <<"send_keys", "submit_click">>, TRUE>>
    ELSE <<FALSE, "error", <<>>, TRUE>>
applied_before_submit(form) ==
    IF form = "label_timeout" THEN <<FALSE, "error", <<>>, FALSE>>
    ELSE IF form = "textarea_missing" THEN <<FALSE, "raise", <<>>, FALSE>>
    ELSE IF generate_cover_letter = "None" THEN <<FALSE, "error", <<>>, TRUE>>
    ELSE IF form = "submit_timeout" THEN <<TRUE, "applied", <<"send_keys">>, TRUE>>
    ELSE IF form = "submit_raises" THEN <<FALSE, "raise", <<"send_keys">>, TRUE>>
    ELSE <<TRUE, "applied", <<"send_keys", "submit_click">>, TRUE>>
fill_and_submit_cover_letter(form) ==
    IF form = "label_timeout" THEN <<FALSE, "error", <<>>, FALSE>>
    ELSE IF form = "textarea_missing" THEN <<FALSE, "raise", <<>>, FALSE>>
    ELSE IF generate_cover_letter = "None" THEN <<FALSE, "error", <<>>, TRUE>>
    ELSE IF form = "submit_timeout" THEN <<FALSE, "error", <<"send_keys">>, TRUE>>
    ELSE IF form = "submit_raises" THEN <<FALSE, "raise", <<"send_keys">>, TRUE>>
    ELSE <<TRUE, "applied", <<"send_keys", "submit_click">>, TRUE>>

\* Lines 265-268, 273-274 of process_single_vacancy. When the letter is
\* asked for and lru_cache holds no result yet, the worker enters the wrapped
\* load_letter_template; lru_cache holds no lock while the wrapped function
\* runs, so other workers can enter it too before a result is stored.
FillAndSubmit(w) ==
    /\ wpc[w] = "fill"
    /\ users' = Drove(w)
    /\ \E form \in Forms :
        LET r == fill_and_submit_cover_letter(form) IN
        IF r[4] /\ template_cache = "unset"
        THEN /\ wpc' = [wpc EXCEPT ![w] = "load"]
             /\ last' = NoLast
             /\ UNCHANGED <<counters, idx, acts>>
        ELSE Classified(w, r[2], acts[w] \o r[3], NoPage, form)
    /\ UNCHANGED <<vacancies, MAX_PARALLEL_DRIVERS, template_file, mainpc, batches,
                   final_stats, reported, driver, sessions, quits, mi, tmp, log,
                   template_cache, file_reads, searchVars>>

\* Lines 165-166, then 219-234: the worker that entered load_letter_template
\* reads the file, lru_cache stores the result, and fill_and_submit_cover_letter
\* goes on with the letter.
LoadTemplate(w) ==
    /\ wpc[w] = "load"
    /\ users' = Drove(w)
    /\ file_reads' = file_reads + 1
    /\ template_cache' = read_template
    /\ \E form \in Forms \ {"label_timeout", "textarea_missing"} :
        LET r == fill_and_submit_cover_letter(form) IN
        Classified(w, r[2], acts[w] \o r[3], NoPage, form)
    /\ UNCHANGED <<vacancies, MAX_PARALLEL_DRIVERS, template_file, mainpc, batches,
                   final_stats, reported, driver, sessions, quits, mi, tmp, log, searchVars>>

\* ------------------------------------------------------- the finally block
\* Lines 323-326: final_stats[key] += local is a read of the shared dict
\* followed by a write; no lock is held between the two.
MergeRead(w) ==
    /\ wpc[w] = "mread"
    /\ tmp' = [tmp EXCEPT ![w] = final_stats[Keys[mi[w]]]]
    /\ wpc' = [wpc EXCEPT ![w] = "mwrite"]
    /\ last' = NoLast
    /\ UNCHANGED <<vacancies, MAX_PARALLEL_DRIVERS, template_file, mainpc, batches,
                   final_stats, reported, driver, sessions, quits, users, idx, counters,
                   mi, log, acts, template_cache, file_reads, searchVars>>

MergeWrite(w) ==
    /\ wpc[w] = "mwrite"
    /\ final_stats' = [final_stats EXCEPT ![Keys[mi[w]]] = tmp[w] + counters[w][Keys[mi[w]]]]
    /\ IF mi[w] < Len(Keys)
       THEN /\ mi' = [mi EXCEPT ![w] = @ + 1]
            /\ wpc' = [wpc EXCEPT ![w] = "mread"]
       ELSE /\ wpc' = [wpc EXCEPT ![w] = "quit"]
            /\ UNCHANGED mi
    /\ tmp' = [tmp EXCEPT ![w] = 0]
    /\ last' = NoLast
    /\ UNCHANGED <<vacancies, MAX_PARALLEL_DRIVERS, template_file, mainpc, batches,
                   reported, driver, sessions, quits, users, idx, counters, log,
                   acts, template_cache, file_reads, searchVars>>

\* Line 327: driver.quit()
Quit(w) ==
    /\ wpc[w] = "quit"
    /\ users' = Drove(w)
    /\ sessions' = sessions \ {driver[w]}
    /\ quits' = Append(quits, driver[w])
    /\ wpc' = [wpc EXCEPT ![w] = "done"]
    /\ last' = NoLast
    /\ UNCHANGED <<vacancies, MAX_PARALLEL_DRIVERS, template_file, mainpc, batches,
                   final_stats, reported, driver, idx, counters, mi, tmp, log, acts,
                   template_cache, file_reads, searchVars>>

\* ------------------------------------------------------- apply: specification
NextApply ==
    \/ Partition
    \/ Report
    \/ GatherRaises
    \/ \E w \in Workers : OpenSession(w)
    \/ \E w \in Workers : LoadCookies(w)
    \/ \E w \in Workers : Get(w)
    \/ \E w \in Workers : CheckAndClick(w)
    \/ \E w \in Workers : FillAndSubmit(w)
    \/ \E w \in Workers : LoadTemplate(w)
    \/ \E w \in Workers : MergeRead(w)
    \/ \E w \in Workers : MergeWrite(w)
    \/ \E w \in Workers : Quit(w)


\* =================================================================== retrieval
\* Text is a sequence of characters, one string per character; a Cyrillic
\* letter is written "cyr_" and its Latin name.
Lower(ch) ==
    CASE ch = "A" -> "a" [] ch = "C" -> "c" [] ch = "J" -> "j" [] ch = "L" -> "l"
      [] ch = "P" -> "p" [] ch = "Q" -> "q" [] ch = "S" -> "s" [] ch = "Y" -> "y"
      [] OTHER -> ch

\* str.lower()
lower(text) == [i \in DOMAIN text |-> Lower(text[i])]

\* word in text
Contains(text, word) ==
    \E i \in 1..(Len(text) - Len(word) + 1) : SubSeq(text, i, i + Len(word) - 1) = word

\* int(v["id"]) of a decimal string, given as its digits
RECURSIVE int(_)
int(digits) ==
    IF digits = <<>> THEN 0
    ELSE 10 * int(SubSeq(digits, 1, Len(digits) - 1)) + digits[Len(digits)]

\* The summaries the service can list: id, name and the fields the search
\* result carries beside them.
Py == <<"P", "y">>
Sql == <<"S", "Q", "L">>
Summaries ==
    { [id |-> <<1>>, name |-> Py, url |-> "u1"],
      [id |-> <<2>>, name |-> <<"J", "r", "C", "#">>, url |-> "u2"],
      [id |-> <<3>>, name |-> Sql, url |-> "u3"],
      [id |-> <<1, 0>>, name |-> <<"Q", "A">>, url |-> "u10"] }

\* The detail the service holds for a summary: description and key_skills.
ServiceDetail(vid) ==
    IF vid = <<1>>
    THEN [description |-> "<p>one</p>", key_skills |-> <<[name |-> Py], [name |-> Sql]>>]
    ELSE IF vid = <<2>>
    THEN [description |-> "", key_skills |-> <<[name |-> Sql]>>]
    ELSE IF vid = <<3>>
    THEN [description |-> "<p>three</p>",
          key_skills |-> <<[name |-> <<"p", "y">>], [name |-> <<"J", "a", "v", "a">>]>>]
    ELSE [description |-> "<p>ten</p>"]

\* A page of the listing: at most per_page summaries, none twice
PagesOfSize(n) ==
    {pg \in UNION {[1..m -> Summaries] : m \in 0..n} :
        \A i, j \in DOMAIN pg : i # j => pg[i] # pg[j]}

\* Line 335
exclude_words ==
    { <<"cyr_p", "cyr_r", "cyr_e", "cyr_p", "cyr_o", "cyr_d", "cyr_a", "cyr_v", "cyr_a">>,
      <<"cyr_r", "cyr_e", "cyr_p", "cyr_e", "cyr_t", "cyr_i", "cyr_t", "cyr_o", "cyr_r">>,
      <<"cyr_p", "cyr_e", "cyr_d", "cyr_a", "cyr_g", "cyr_o", "cyr_g">>,
      <<"cyr_u", "cyr_ch", "cyr_i", "cyr_t", "cyr_e">>,
      <<"cyr_a", "cyr_n", "cyr_a", "cyr_l", "cyr_i", "cyr_t", "cyr_i", "cyr_k">>,
      <<"c", "#">>,
      <<"c", "+", "+">>,
      <<"f", "r", "o", "n", "t", "e", "n", "d">> }

\* Line 333: int(v["id"]) not in seen_ids
KeepAll(v, seen) == TRUE
NotSeen(v, seen) == int(v.id) \notin seen

\* Lines 337-340: not any(word in v["name"].lower() for word in exclude_words)
NotExcludedCaseSensitive(v) == ~ \E word \in exclude_words : Contains(v.name, word)
NotExcluded(v) == ~ \E word \in exclude_words : Contains(lower(v.name), word)

NoDetail == [none |-> TRUE]

\* Lines 116-135
has_some_skill(detail, required) ==
    LET listed == IF "key_skills" \in DOMAIN detail THEN detail.key_skills ELSE <<>>
        skills == {lower(listed[i].name) : i \in DOMAIN listed}
    IN  \E i \in DOMAIN required : lower(required[i]) \in skills
has_required_skills(detail, required) ==
    LET listed == IF "key_skills" \in DOMAIN detail THEN detail.key_skills ELSE <<>>
        skills == {lower(listed[i].name) : i \in DOMAIN listed}
    IN  \A i \in DOMAIN required : lower(required[i]) \in skills

\* Lines 70-91 leave the text without its tags
clean_html(raw_html) ==
    CASE raw_html = "<p>one</p>" -> "one"
      [] raw_html = "<p>three</p>" -> "three"
      [] raw_html = "<p>ten</p>" -> "ten"
      [] OTHER -> raw_html

\* Lines 94-113
parse_vacancy(vacancy, detail) ==
    LET description == IF detail # NoDetail THEN detail.description ELSE "None"
    IN  [id |-> vacancy.id,
         name |-> vacancy.name,
         description |-> clean_html(IF description \in {"None", ""} THEN "placeholder"
                                    ELSE description)]

\* data[:max_vacancies]
NoTruncate(d, n) == d
Truncate(d, n) ==
    IF n >= 0 THEN SubSeq(d, 1, Min(n, Len(d))) ELSE SubSeq(d, 1, Max(Len(d) + n, 0))

\* Line 327: the loop condition
LoopWhilePages(d, pg, total) == pg * PerPage < total
LoopCond(d, pg, total) == Len(d) < max_vacancies /\ pg * PerPage < total

LoopPc(d, pg, total) == IF LoopCond(d, pg, total) THEN "fetch" ELSE "return"

\* required_skills is None or a list; None of a detail is NoDetail
NoSkills == [given |-> FALSE, list |-> <<>>]
SkillList(names) == [given |-> TRUE, list |-> names]
EvenWithoutSkills(skills) == TRUE
Truthy(skills) == skills.given /\ skills.list # <<>>

Ids(records) == {int(records[i].id) : i \in DOMAIN records}

\* ------------------------------------------------------- storage collaborator
\* DBVacanciesManager.get_all_processed_ids is not part of the sources: it
\* returns the persisted set of processed ids.
get_all_processed_ids == processed

\* ----------------------------------------------------------- retrieval: Init
HistoryStart ==
    /\ prev_count = 0
    /\ probed = 0
    /\ captcha = FALSE
    /\ failed = FALSE
    /\ page_requests = <<>>
    /\ probe_status = 0
    /\ detail_requests = 0
    /\ sent = <<>>

\* No fetch_details coroutine exists; the semaphore has its initial value
GateIdle ==
    /\ max_concurrent = 1
    /\ permits = 1
    /\ dcall = <<>>

SearchIdle ==
    /\ processed = {}
    /\ table = {}
    /\ hpc = "off"
    /\ run = "first"
    /\ outs = <<>>
    /\ max_vacancies = 0
    /\ required_skills = NoSkills
    /\ rpc = "off"
    /\ seen_ids = {}
    /\ total_found = 0
    /\ page = 0
    /\ data = <<>>
    /\ processed_count = 0
    /\ fetched = <<>>
    /\ deduped = <<>>
    /\ survivors = <<>>
    /\ details = <<>>
    /\ result = <<>>
    /\ HistoryStart
    /\ GateIdle

ApplyIdle ==
    /\ vacancies = <<>>
    /\ MAX_PARALLEL_DRIVERS = 1
    /\ template_file = "ok"
    /\ mainpc = "off"
    /\ batches = <<>>
    /\ final_stats = ZeroStats
    /\ reported = ZeroStats
    /\ wpc = <<>>
    /\ driver = <<>>
    /\ sessions = {}
    /\ quits = <<>>
    /\ users = {}
    /\ idx = <<>>
    /\ counters = <<>>
    /\ mi = <<>>
    /\ tmp = <<>>
    /\ log = <<>>
    /\ acts = <<>>
    /\ last = NoLast
    /\ template_cache = "unset"
    /\ file_reads = 0

SkillArgs == {NoSkills, SkillList(<<Py>>), SkillList(<<<<"p", "y">>, <<"j", "a", "v", "a">>>>)}

\* One call of get_vacancies_async, with any arguments and any stored ids.
InitRetrieve ==
    /\ ApplyIdle
    /\ processed \in SUBSET {1, 10}
    /\ table = {}
    /\ hpc = "off"
    /\ run = "first"
    /\ outs = <<>>
    /\ max_vacancies \in 0..MaxResults
    /\ required_skills \in SkillArgs
    /\ rpc = "start"
    /\ seen_ids = {}
    /\ total_found = 0
    /\ page = 0
    /\ data = <<>>
    /\ processed_count = 0
    /\ fetched = <<>>
    /\ deduped = <<>>
    /\ survivors = <<>>
    /\ details = <<>>
    /\ result = <<>>
    /\ HistoryStart
    /\ GateIdle

\* ------------------------------------------------------- get_vacancies_async
\* Lines 308-313: data = [], the snapshot of the processed ids is loaded.
Start ==
    /\ rpc = "start"
    /\ seen_ids' = get_all_processed_ids
    /\ data' = <<>>
    /\ rpc' = "probe"
    /\ UNCHANGED <<processed, table, hpc, run, outs, max_vacancies, required_skills,
                   total_found, page, processed_count, fetched, deduped, survivors,
                   details, result, histVars, gateVars, reqVars, applyVars>>

\* Lines 219-224: "found" of the answer, or 0 when the status is not 200
found_whatever_status(status, found) == found
get_total_count(status, found) == IF status = 200 THEN found ELSE 0

\* Lines 319-327: the probe is sent and answered, then the loop condition is
\* tested for page 0.
Probe ==
    /\ rpc = "probe"
    /\ \E found \in 0..MaxFound, status \in {200, 500} :
        /\ total_found' = get_total_count(status, found)
        /\ probe_status' = status
        /\ rpc' = LoopPc(data, 0, total_found')
    /\ probed' = total_found'
    /\ page' = 0
    /\ prev_count' = 0
    /\ processed_count' = 0
    /\ UNCHANGED <<processed, table, hpc, run, outs, max_vacancies, required_skills,
                   seen_ids, data, fetched, deduped, survivors, details, result,
                   captcha, failed, gateVars, page_requests, detail_requests, sent,
                   applyVars>>

\* Line 368: page += 1
SamePage(p) == p
NextPage(p) == p + 1

\* Lines 138-160, 240: the parameters of a page request
build_params(pg, per_page) == [page |-> pg, per_page |-> per_page]

\* Lines 329-340 and, without required skills, 357-368, 327: one page is
\* fetched ([] when the status is not 200) and filtered.
FetchPage ==
    /\ rpc = "fetch"
    /\ page_requests' = Append(page_requests, build_params(page, PerPage))
    /\ \E status \in {200, 500}, items \in PagesOfSize(PerPage) :
        LET vacancies_0 == IF status = 200 THEN items ELSE <<>>
            vacancies_1 == SelectSeq(vacancies_0, LAMBDA v : NotSeen(v, seen_ids))
            vacancies_2 == SelectSeq(vacancies_1, NotExcluded)
        IN  /\ status = 500 => items = <<>>
            /\ fetched' = vacancies_0
            /\ processed_count' = processed_count + Len(vacancies_0)
            /\ deduped' = vacancies_1
            /\ survivors' = vacancies_2
            /\ failed' = (failed \/ status # 200)
            /\ IF Truthy(required_skills)
               THEN /\ rpc' = "details"
                    /\ UNCHANGED <<data, page, prev_count>>
               ELSE /\ data' = data \o [i \in DOMAIN vacancies_2 |->
                                           parse_vacancy(vacancies_2[i], NoDetail)]
                    /\ prev_count' = Len(data')
                    /\ page' = NextPage(page)
                    /\ rpc' = LoopPc(data', page', total_found)
    /\ details' = <<>>
    /\ UNCHANGED <<processed, table, hpc, run, outs, max_vacancies, required_skills,
                   seen_ids, total_found, result, probed, captcha, gateVars,
                   probe_status, detail_requests, sent, applyVars>>

\* Lines 185-204: what one detail call gives: the detail, None for a status
\* that is neither 200 nor a captcha 403.
DetailAnswers(v) == {NoDetail, ServiceDetail(v.id)}

\* Lines 351-355: parse_vacancy(vac, det) for vac, det in zip(vacancies,
\* details) if det and has_required_skills(det, required_skills)
Filtered(survs, dets, required) ==
    LET RECURSIVE Pick(_)
        Pick(i) ==
            IF i > Min(Len(survs), Len(dets)) THEN <<>>
            ELSE (IF dets[i] # NoDetail /\ has_required_skills(dets[i], required)
                  THEN <<parse_vacancy(survs[i], dets[i])>>
                  ELSE <<>>) \o Pick(i + 1)
    IN  Pick(1)

\* Line 348: break leaves the while loop; what follows is the return.
ContinueLoop == "fetch"
AfterCaptcha == "return"

\* Lines 342-356, 361-368, 327: the details of the surviving summaries are
\* fetched; CaptchaRequired from any of the calls breaks the loop.
FetchDetails ==
    /\ rpc = "details"
    /\ \/ /\ survivors # <<>>
          /\ rpc' = AfterCaptcha
          /\ captcha' = TRUE
          /\ \E n \in 1..Len(survivors) : detail_requests' = detail_requests + n
          /\ UNCHANGED <<data, page, details, prev_count, failed>>
       \/ \E dets \in [DOMAIN survivors -> UNION {DetailAnswers(v) : v \in Summaries}] :
            /\ \A i \in DOMAIN survivors : dets[i] \in DetailAnswers(survivors[i])
            /\ details' = dets
            /\ failed' = (failed \/ \E i \in DOMAIN dets : dets[i] = NoDetail)
            /\ data' = data \o Filtered(survivors, dets, required_skills.list)
            /\ prev_count' = Len(data')
            /\ page' = NextPage(page)
            /\ rpc' = LoopPc(data', page', total_found)
            /\ detail_requests' = detail_requests + Len(survivors)
            /\ UNCHANGED captcha
    /\ UNCHANGED <<processed, table, hpc, run, outs, max_vacancies, required_skills,
                   seen_ids, total_found, processed_count, fetched, deduped, survivors,
                   result, probed, gateVars, page_requests, probe_status, sent,
                   applyVars>>

\* ------------------------------------- fetch_details_batch, call by call
\* Lines 259-263: one fetch_details coroutine per surviving summary is handed
\* to gather.
GatherStart ==
    /\ rpc = "details"
    /\ rpc' = "gather"
    /\ dcall' = [i \in DOMAIN survivors |-> "new"]
    /\ sent' = [i \in DOMAIN survivors |-> 0]
    /\ details' = [i \in DOMAIN survivors |-> NoDetail]
    /\ UNCHANGED <<processed, table, hpc, run, outs, max_vacancies, required_skills,
                   seen_ids, total_found, page, data, processed_count, fetched, deduped,
                   survivors, result, histVars, max_concurrent, permits, page_requests,
                   probe_status, detail_requests, applyVars>>

\* Line 198: async with semaphore lets a coroutine in while the value of the
\* semaphore is positive
NoGate == TRUE
HasSlot == permits > 0

\* The coroutines that are inside async with semaphore
Holders == {i \in DOMAIN dcall : dcall[i] \in {"sleep", "inflight"}}

\* Lines 200, 219, 241: the HTTP calls that are open: the detail calls between
\* request and response, and the probe or page call the loop is waiting for
InFlight ==
    Cardinality({i \in DOMAIN dcall : dcall[i] = "inflight"})
        + (IF rpc \in {"probe", "fetch"} THEN 1 ELSE 0)

\* Lines 198-199: the semaphore is acquired, then request_timeout is slept.
Acquire(i) ==
    /\ dcall[i] = "new"
    /\ HasSlot
    /\ permits' = permits - 1
    /\ dcall' = [dcall EXCEPT ![i] = "sleep"]
    /\ UNCHANGED <<processed, table, hpc, run, outs, max_vacancies, required_skills, rpc,
                   seen_ids, total_found, page, data, processed_count, fetched, deduped,
                   survivors, details, result, histVars, max_concurrent, reqVars, applyVars>>

\* Line 200: session.get sends the request.
Send(i) ==
    /\ dcall[i] = "sleep"
    /\ dcall' = [dcall EXCEPT ![i] = "inflight"]
    /\ sent' = [sent EXCEPT ![i] = @ + 1]
    /\ detail_requests' = detail_requests + 1
    /\ UNCHANGED <<processed, table, hpc, run, outs, max_vacancies, required_skills, rpc,
                   seen_ids, total_found, page, data, processed_count, fetched, deduped,
                   survivors, details, result, histVars, max_concurrent, permits,
                   page_requests, probe_status, applyVars>>

\* Lines 201-204: 200 returns the detail, a captcha 403 raises
\* CaptchaRequired, any other status returns None; leaving async with
\* releases the semaphore.
\* Lines 262-263: gather and tqdm_asyncio.gather put the result of the i-th
\* awaitable at position i of the list, whenever it arrives
ArrivalSlot(i, arrived) == arrived + 1
Slot(i, arrived) == i

Answered == {j \in DOMAIN dcall : dcall[j] \in {"done", "captcha", "cancelled"}}

Respond(i) ==
    /\ dcall[i] = "inflight"
    /\ permits' = permits + 1
    /\ \E status \in {200, 403, 500} :
        /\ dcall' = [dcall EXCEPT ![i] = IF status = 403 THEN "captcha" ELSE "done"]
        /\ details' = IF status = 200 /\ i \in DOMAIN details
                      THEN [details EXCEPT ![Slot(i, Cardinality(Answered))] =
                                ServiceDetail(survivors[i].id)]
                      ELSE details
        /\ failed' = (failed \/ status = 500)
    /\ UNCHANGED <<processed, table, hpc, run, outs, max_vacancies, required_skills, rpc,
                   seen_ids, total_found, page, data, processed_count, fetched, deduped,
                   survivors, result, prev_count, probed, captcha, max_concurrent,
                   reqVars, applyVars>>

\* Lines 345, 350-368, 327: gather returns the list of results once every
\* coroutine has returned.
GatherDone ==
    /\ rpc = "gather"
    /\ \A i \in DOMAIN dcall : dcall[i] = "done"
    /\ data' = data \o Filtered(survivors, details, required_skills.list)
    /\ prev_count' = Len(data')
    /\ page' = NextPage(page)
    /\ rpc' = LoopPc(data', page', total_found)
    /\ dcall' = <<>>
    /\ sent' = <<>>
    /\ UNCHANGED <<processed, table, hpc, run, outs, max_vacancies, required_skills,
                   seen_ids, total_found, processed_count, fetched, deduped, survivors,
                   details, result, probed, captcha, failed, max_concurrent, permits,
                   page_requests, probe_status, detail_requests, applyVars>>

\* Lines 344-348: gather raises the CaptchaRequired of a coroutine as soon as
\* it is scheduled after that coroutine; the other coroutines are not
\* cancelled by it.
GatherCaptcha ==
    /\ rpc = "gather"
    /\ \E i \in DOMAIN dcall : dcall[i] = "captcha"
    /\ captcha' = TRUE
    /\ rpc' = AfterCaptcha
    /\ UNCHANGED <<processed, table, hpc, run, outs, max_vacancies, required_skills,
                   seen_ids, total_found, page, data, processed_count, fetched, deduped,
                   survivors, details, result, prev_count, probed, failed, gateVars,
                   reqVars, applyVars>>

\* asyncio.run cancels the coroutines that are still pending when
\* get_vacancies_async has returned; one inside async with releases the
\* semaphore on its way out.
Cancel(i) ==
    /\ rpc = "returned"
    /\ dcall[i] \in {"new", "sleep", "inflight"}
    /\ permits' = IF i \in Holders THEN permits + 1 ELSE permits
    /\ dcall' = [dcall EXCEPT ![i] = "cancelled"]
    /\ UNCHANGED <<processed, table, hpc, run, outs, max_vacancies, required_skills, rpc,
                   seen_ids, total_found, page, data, processed_count, fetched, deduped,
                   survivors, details, result, histVars, max_concurrent, reqVars, applyVars>>

\* Lines 370-371
Return ==
    /\ rpc = "return"
    /\ result' = Truncate(data, max_vacancies)
    /\ rpc' = "returned"
    /\ UNCHANGED <<processed, table, hpc, run, outs, max_vacancies, required_skills,
                   seen_ids, total_found, page, data, processed_count, fetched, deduped,
                   survivors, details, histVars, gateVars, reqVars, applyVars>>

\* ------------------------------------------- DBVacanciesManager.write_data
Columns == {"id", "name", "url", "salary_from", "salary_to", "area", "description"}

\* Lines 80-95: building data_tuples reads every column of every record and
\* raises KeyError for a record without one of them; with no tuples at all
\* the INSERT is executed without parameters and fails inside execute_query,
\* which reports the error; ON CONFLICT (id) DO NOTHING keeps existing rows.
write_data(rows, records) ==
    IF \E i \in DOMAIN records : ~ (Columns \subseteq DOMAIN records[i])
    THEN [raised |-> TRUE, rows |-> rows]
    ELSE [raised |-> FALSE,
          rows |-> rows \cup {records[i] : i \in {j \in DOMAIN records :
                        \A r \in rows : r.id # records[j].id
                        /\ \A h \in 1..(j - 1) : records[h].id # records[j].id}}]

\* A row the table may hold from an earlier session
OldRow ==
    [id |-> <<7>>, name |-> <<"Q", "A">>, url |-> "u7", salary_from |-> 0,
     salary_to |-> 0, area |-> "a", description |-> "text"]

\* ---------------------------------------------------- handle_search_and_save
\* The search-and-save flow, entered twice with the same answers at the
\* prompts; the storage persists between the two.
InitSearchSave ==
    /\ ApplyIdle
    /\ processed \in SUBSET {1, 10}
    /\ table \in {{}, {OldRow}}
    /\ hpc = "menu"
    /\ run = "first"
    /\ outs = <<>>
    /\ max_vacancies \in 0..MaxResults
    /\ required_skills \in SkillArgs
    /\ rpc = "off"
    /\ seen_ids = {}
    /\ total_found = 0
    /\ page = 0
    /\ data = <<>>
    /\ processed_count = 0
    /\ fetched = <<>>
    /\ deduped = <<>>
    /\ survivors = <<>>
    /\ details = <<>>
    /\ result = <<>>
    /\ HistoryStart
    /\ GateIdle

\* The locals of a call of get_vacancies_async that is over
ForgetLocals ==
    /\ total_found' = 0
    /\ page' = 0
    /\ processed_count' = 0
    /\ fetched' = <<>>
    /\ deduped' = <<>>
    /\ survivors' = <<>>
    /\ details' = <<>>
    /\ result' = <<>>
    /\ prev_count' = 0
    /\ probed' = 0
    /\ captcha' = FALSE
    /\ failed' = FALSE
    /\ page_requests' = <<>>
    /\ probe_status' = 0
    /\ detail_requests' = 0
    /\ sent' = <<>>

\* Lines 122-160: the prompts are answered and get_vacancies_async is called.
HandleSearch ==
    /\ hpc = "menu"
    /\ hpc' = "search"
    /\ rpc' = "start"
    /\ ForgetLocals
    /\ UNCHANGED <<processed, table, run, outs, max_vacancies, required_skills,
                   seen_ids, data, gateVars, applyVars>>

\* Lines 161-163: KeyboardInterrupt during the search: nothing is saved.
Interrupt ==
    /\ hpc = "search"
    /\ rpc \in {"start", "probe", "fetch", "details", "return"}
    /\ hpc' = "done"
    /\ rpc' = "off"
    /\ seen_ids' = {}
    /\ data' = <<>>
    /\ ForgetLocals
    /\ UNCHANGED <<processed, table, run, outs, max_vacancies, required_skills,
                   gateVars, applyVars>>

\* Lines 152, 165-169: create_table, clear_table, write_data(vacancies).
Save ==
    /\ hpc = "search"
    /\ rpc = "returned"
    /\ LET written == write_data({}, result)
       IN  /\ table' = written.rows
           /\ hpc' = IF written.raised THEN "raised" ELSE "done"
    /\ outs' = Append(outs, [i \in DOMAIN result |-> int(result[i].id)])
    /\ rpc' = "off"
    /\ seen_ids' = {}
    /\ data' = <<>>
    /\ ForgetLocals
    /\ UNCHANGED <<processed, run, max_vacancies, required_skills, gateVars, applyVars>>

\* The flow is entered again: from the menu loop, or after the program was
\* started again when write_data had raised.
Again ==
    /\ hpc \in {"done", "raised"}
    /\ run = "first"
    /\ run' = "second"
    /\ hpc' = "menu"
    /\ UNCHANGED <<processed, table, outs, max_vacancies, required_skills, rpc,
                   seen_ids, total_found, page, data, processed_count, fetched, deduped,
                   survivors, details, result, histVars, gateVars, reqVars, applyVars>>

\* ------------------------------------------ retrieval with its detail calls
\* One call of get_vacancies_async, with or without required skills, asking
\* for one vacancy or for as many as possible, seen through the HTTP calls it
\* has open.
InitGate ==
    /\ ApplyIdle
    /\ processed \in SUBSET {1}
    /\ table = {}
    /\ hpc = "off"
    /\ run = "first"
    /\ outs = <<>>
    /\ max_vacancies \in {1, MaxResults}
    /\ required_skills \in SkillArgs
    /\ rpc = "start"
    /\ seen_ids = {}
    /\ total_found = 0
    /\ page = 0
    /\ data = <<>>
    /\ processed_count = 0
    /\ fetched = <<>>
    /\ deduped = <<>>
    /\ survivors = <<>>
    /\ details = <<>>
    /\ result = <<>>
    /\ HistoryStart
    /\ max_concurrent \in 1..MaxConcurrent
    /\ permits = max_concurrent
    /\ dcall = <<>>

\* ------------------------------------------------------------ specifications
InitApply == ApplyStart /\ SearchIdle

SpecApply == InitApply /\ [][NextApply]_vars

\* Lines 346-348 alone, over longer lists: the partition of the record list
InitPartition ==
    /\ vacancies \in Lists(MaxListLen)
    /\ MAX_PARALLEL_DRIVERS \in 1..MaxSessions
    /\ template_file \in {"ok", "missing"}
    /\ mainpc = "start"
    /\ NotStarted
    /\ SearchIdle

NextPartition == Partition

SpecPartition == InitPartition /\ [][NextPartition]_vars

NextRetrieve ==
    \/ Start
    \/ Probe
    \/ FetchPage
    \/ FetchDetails
    \/ Return

SpecRetrieve == InitRetrieve /\ [][NextRetrieve]_vars

\* The same call when the event loop keeps running the coroutine and the
\* service answers every request that was sent: a step that can be taken is
\* taken at last.
SpecRetrieveLive == SpecRetrieve /\ WF_vars(NextRetrieve)

NextSearchSave ==
    \/ HandleSearch
    \/ Start
    \/ Probe
    \/ FetchPage
    \/ FetchDetails
    \/ Return
    \/ Interrupt
    \/ Save
    \/ Again

SpecSearchSave == InitSearchSave /\ [][NextSearchSave]_vars

NextGate ==
    \/ Start
    \/ Probe
    \/ FetchPage
    \/ GatherStart
    \/ \E i \in DOMAIN dcall : Acquire(i)
    \/ \E i \in DOMAIN dcall : Send(i)
    \/ \E i \in DOMAIN dcall : Respond(i)
    \/ GatherDone
    \/ GatherCaptcha
    \/ Return
    \/ \E i \in DOMAIN dcall : Cancel(i)

SpecGate == InitGate /\ [][NextGate]_vars

\* ==================================================================== claims
Terminated == mainpc \in {"done", "raised"} /\ \A w \in Workers : wpc[w] \in {"done", "failed"}

\* C1: when an apply run has finished, applied + already_applied + rejected +
\* errors of the shared statistics equals the number of input records.
OutcomeConservation == Terminated => StatsTotal(final_stats) = Len(vacancies)

\* C2: for a list of at least one record the batches are pairwise disjoint,
\* their lengths sum to the length of the list and their union is the list.
PartitionExact ==
    (mainpc \notin {"start", "off"} /\ Len(vacancies) >= 1) =>
        /\ SumSeq([j \in DOMAIN batches |-> Len(batches[j])]) = Len(vacancies)
        /\ \A i, j \in DOMAIN batches : i # j => Range(batches[i]) \cap Range(batches[j]) = {}
        /\ UNION {Range(batches[j]) : j \in DOMAIN batches} = Range(vacancies)

\* C2 witness: a list was split into several batches, the last one shorter.
PartitionExactWitness ==
    /\ mainpc = "gather"
    /\ Len(batches) >= 2
    /\ Len(batches[Len(batches)]) < Len(batches[1])

\* C3: when all workers are through, every shared counter equals the sum of
\* the workers' own counters (no update of the merge is lost).
NoLostUpdates ==
    Terminated =>
        \A key \in Range(Keys) :
            final_stats[key] = SumSeq([w \in DOMAIN counters |-> counters[w][key]])

\* C4: an exception while one vacancy is processed becomes the outcome
\* "error" for it; the worker is handed the vacancies of its batch one by one
\* in batch order, and reaches the end of its batch whatever happened to any.
FailureIsolation ==
    /\ last.raised => last.status = "error"
    /\ \A w \in Workers :
        /\ Len(log[w]) <= Len(Batch(w))
        /\ log[w] = SubSeq(Batch(w), 1, Len(log[w]))
        /\ wpc[w] \in {"mread", "mwrite", "quit", "done"} =>
               log[w] = Batch(w) /\ StatsTotal(counters[w]) = Len(Batch(w))
        /\ wpc[w] = "failed" => log[w] = <<>>

\* C4 witness: an exception was caught for a vacancy and its worker is about
\* to process the next vacancy of the batch.
FailureIsolationWitness ==
    \E w \in Workers :
        /\ last.worker = w
        /\ last.raised
        /\ last.id = Batch(w)[1]
        /\ wpc[w] = "get"
        /\ counters[w]["errors"] = 1

\* C5: a failure inside one worker does not make the apply run raise, and
\* every other worker still processes all of its records.
WorkerFailureContained ==
    (\E w \in Workers : wpc[w] = "failed") =>
        /\ mainpc # "raised"
        /\ Terminated => \A w \in Workers : wpc[w] = "done" => log[w] = Batch(w)

\* C6: a worker that is through, normally or by a failure, has closed the
\* session it opened, with exactly one quit.
SessionReleased ==
    \A w \in Workers :
        (wpc[w] \in {"done", "failed"} /\ driver[w] # 0) =>
            /\ driver[w] \notin sessions
            /\ Cardinality({i \in DOMAIN quits : quits[i] = driver[w]}) = 1

\* C7: at most MAX_PARALLEL_DRIVERS batches and open sessions at any moment;
\* a session is driven by one worker only, one vacancy at a time.
SessionBound ==
    /\ Len(batches) <= MAX_PARALLEL_DRIVERS
    /\ Cardinality(sessions) <= MAX_PARALLEL_DRIVERS
    /\ \A u1, u2 \in users : u1[1] = u2[1] => u1[2] = u2[2]
    /\ \A s \in sessions :
        Cardinality({w \in Workers : driver[w] = s /\ wpc[w] \in {"check", "fill", "load"}}) <= 1

\* C7 witness: as many sessions as allowed are open, each busy with a vacancy.
SessionBoundWitness ==
    /\ MAX_PARALLEL_DRIVERS >= 2
    /\ Cardinality(sessions) = MAX_PARALLEL_DRIVERS
    /\ \A w \in Workers : wpc[w] \in {"check", "fill"}

InRunDedup ==
    /\ rpc \notin {"off", "start"} => seen_ids = processed
    /\ \A i \in DOMAIN data : int(data[i].id) \notin seen_ids
    /\ \A i \in DOMAIN result : int(result[i].id) \notin seen_ids
    /\ Range(deduped) \subseteq Range(fetched)
    /\ \A i \in DOMAIN fetched :
        fetched[i] \in Range(deduped) <=> int(fetched[i].id) \notin seen_ids

\* C9 witness: a fetched page held a summary of the snapshot and one that is
\* not in it, only the latter passed the dedup step, and the returned list
\* holds it.
InRunDedupWitness ==
    /\ rpc = "returned"
    /\ seen_ids # {}
    /\ Cardinality({i \in DOMAIN fetched : int(fetched[i].id) \in seen_ids}) = 1
    /\ Len(fetched) = 2
    /\ Len(deduped) = 1
    /\ \E i \in DOMAIN result : result[i].id = deduped[1].id

\* C10: the caller has added the ids of a saved search to the processed ids
\* when its flow is over, and the outputs of two searches, the second begun
\* after the first flow was over, share no id.
CrossRunDisjoint ==
    /\ (hpc \in {"done", "raised"} /\ outs # <<>>) =>
           Range(outs[Len(outs)]) \subseteq processed
    /\ Len(outs) = 2 => Range(outs[1]) \cap Range(outs[2]) = {}

TransportAborts ==
    failed =>
        /\ rpc # "fetch"
        /\ ~ (rpc = "details" /\ survivors # <<>>)

\* C13: the iteration that fetched details adds to data the records of exactly
\* the surviving summaries whose detail was fetched and lists, whatever the
\* case of the letters, every required skill.
SkillFilter ==
    [][(rpc = "details" /\ rpc' # "details" /\ ~ captcha') =>
          LET added == SubSeq(data', Len(data) + 1, Len(data'))
              keep(i) ==
                  /\ details'[i] # NoDetail
                  /\ \A r \in Range(required_skills.list) :
                        /\ "key_skills" \in DOMAIN details'[i]
                        /\ \E k \in DOMAIN details'[i].key_skills :
                              lower(details'[i].key_skills[k].name) = lower(r)
          IN  /\ SubSeq(data', 1, Len(data)) = data
              /\ Len(added) = Cardinality({i \in DOMAIN survivors : keep(i)})
              /\ \A i \in DOMAIN survivors :
                    keep(i) <=> \E j \in DOMAIN added : added[j].id = survivors[i].id
    ]_vars

\* C13 witness: with "py" and "java" required, the summary with the skills Py
\* and SQL was dropped and the one with py and Java was kept.
SkillFilterWitness ==
    /\ page = 1
    /\ required_skills.list = <<<<"p", "y">>, <<"j", "a", "v", "a">>>>
    /\ {survivors[i].id : i \in DOMAIN survivors} = {<<1>>, <<3>>}
    /\ Len(details) = 2
    /\ \A i \in DOMAIN details : details[i] # NoDetail
    /\ {data[i].id : i \in DOMAIN data} = {<<3>>}

\* C14: the open HTTP calls never outnumber max_concurrent; the semaphore
\* counts the coroutines inside it, so that none enters while max_concurrent
\* of them are inside.
AdmissionGate ==
    /\ InFlight <= max_concurrent
    /\ permits >= 0
    /\ permits + Cardinality(Holders) = max_concurrent

\* C14 witness: as many detail calls as allowed are open and a further
\* coroutine waits at the semaphore.
AdmissionGateWitness ==
    /\ permits = 0
    /\ InFlight = max_concurrent
    /\ \E i \in DOMAIN dcall : dcall[i] = "new"

\* C15: a page that shows the "already responded" marker gives
\* already_applied, else one that shows the "declined" marker gives rejected;
\* nothing is clicked or typed for it and the cover letter step is not entered.
StatusShortCircuit ==
    (last.shown.find = "ok" /\ (last.shown.already \/ last.shown.rejected)) =>
        /\ last.status = IF last.shown.already THEN "already_applied" ELSE "rejected"
        /\ last.acts = <<>>
        /\ acts[last.worker] = <<>>
        /\ wpc[last.worker] # "fill"

\* C15 witness: a page with the "declined" marker and a clickable apply
\* control was classified rejected.
StatusShortCircuitWitness ==
    /\ last.shown.find = "ok"
    /\ last.shown.rejected
    /\ ~ last.shown.already
    /\ last.shown.apply = "clickable"
    /\ last.status = "rejected"
    /\ counters[last.worker]["rejected"] >= 1

\* C16: without a marker, an apply control that does not become clickable in
\* time gives error, and neither letter nor submit is attempted.
ApplyTimeout ==
    (/\ last.shown.find = "ok"
     /\ ~ last.shown.already
     /\ ~ last.shown.rejected
     /\ last.shown.apply = "timeout") =>
        /\ last.status = "error"
        /\ last.acts = <<>>
        /\ acts[last.worker] = <<>>
        /\ wpc[last.worker] # "fill"

\* C16 witness: such a page was classified and counted as an error.
ApplyTimeoutWitness ==
    /\ last.shown.find = "ok"
    /\ ~ last.shown.already
    /\ ~ last.shown.rejected
    /\ last.shown.apply = "timeout"
    /\ last.status = "error"
    /\ ~ last.raised
    /\ counters[last.worker]["errors"] >= 1

\* C17: while the template file is missing no vacancy is counted as applied,
\* and a vacancy that got to the cover letter step is counted as an error
\* without a click on submit.
MissingTemplate ==
    template_file = "missing" =>
        /\ \A w \in Workers : counters[w]["applied"] = 0
        /\ final_stats["applied"] = 0
        /\ last.form # "none" =>
            /\ last.status = "error"
            /\ "submit_click" \notin Range(last.acts)
            /\ counters[last.worker]["errors"] >= 1

\* C17 witness: the form was complete and the apply control clicked, the
\* template was missing, the outcome is error.
MissingTemplateWitness ==
    /\ template_file = "missing"
    /\ last.form = "ok"
    /\ last.status = "error"
    /\ last.acts = <<"apply_click">>
    /\ template_cache = "None"

\* C18: when the submit control does not turn up after the letter was typed,
\* the outcome is error and the click on apply and the typed letter stay done.
SubmitFailure ==
    (last.form = "submit_timeout" /\ template_file = "ok") =>
        /\ last.status = "error"
        /\ last.acts[1] = "apply_click"
        /\ last.acts[Len(last.acts)] = "send_keys"
        /\ "submit_click" \notin Range(last.acts)

\* C18 witness: such an outcome, counted as an error.
SubmitFailureWitness ==
    /\ last.form = "submit_timeout"
    /\ last.status = "error"
    /\ last.acts = <<"apply_click", "send_keys">>
    /\ counters[last.worker]["errors"] = 1

\* The least b with b * k >= len
Ceil(len, k) == CHOOSE b \in 0..len : b * k >= len /\ \A c \in 0..(b - 1) : c * k < len

\* C19 as stated: the sizes of two batches differ by at most one.
BatchBalance ==
    \A i, j \in DOMAIN batches : Len(batches[i]) - Len(batches[j]) <= 1

\* C19 as amended: the sizes of two batches differ by less than the batch
\* size, and only the last batch can be smaller than another one.
BatchBalanceAmended ==
    /\ \A i, j \in DOMAIN batches :
        Len(batches[i]) - Len(batches[j])
            <= Ceil(Len(vacancies), MAX_PARALLEL_DRIVERS) - 1
    /\ \A i, j \in DOMAIN batches :
        Len(batches[i]) < Len(batches[j]) => i = Len(batches)

\* C19 witness: the last batch is two records shorter than the first.
BatchBalanceWitness ==
    /\ mainpc = "gather"
    /\ Len(batches) >= 2
    /\ Len(batches[1]) - Len(batches[Len(batches)]) >= 2

\* C20: with b = ceil(L / k), batch j is the slice of the list that starts
\* after (j - 1) * b records; all batches but the last hold b records, the
\* last between 1 and b; 10 records and 3 sessions give the sizes 4, 4, 2.
BatchShape ==
    LET b == Ceil(Len(vacancies), MAX_PARALLEL_DRIVERS)
        n == Len(batches)
    IN  /\ mainpc = "gather" =>
              n >= 1 /\ (n - 1) * b + Len(batches[n]) = Len(vacancies)
        /\ \A j \in DOMAIN batches :
            /\ batches[j] = SubSeq(vacancies, (j - 1) * b + 1, (j - 1) * b + Len(batches[j]))
            /\ j < n => Len(batches[j]) = b
            /\ j = n => Len(batches[j]) \in 1..b
        /\ (mainpc = "gather" /\ Len(vacancies) = 10 /\ MAX_PARALLEL_DRIVERS = 3) =>
              [j \in DOMAIN batches |-> Len(batches[j])] = <<4, 4, 2>>

\* C20 witness: 10 records were partitioned for 3 sessions.
BatchShapeWitness ==
    /\ mainpc = "gather"
    /\ Len(vacancies) = 10
    /\ MAX_PARALLEL_DRIVERS = 3
    /\ Len(batches) = 3
    /\ Len(batches[3]) = 2

\* The scenario "totalFound = 250, maxResults = 120, pageSize = 100, no
\* filtering" at the scale of the bounds: the service has at least as many
\* vacancies as were asked for, more than one page and at most two pages were
\* asked for, no skills were required, every page came back full and none of
\* its summaries was dropped.
ScenarioA ==
    /\ total_found >= max_vacancies
    /\ PerPage < max_vacancies
    /\ max_vacancies <= 2 * PerPage
    /\ required_skills.list = <<>>
    /\ processed_count = PerPage * Len(page_requests)
    /\ Len(data) = processed_count

\* C21 as stated: a page is requested only while fewer than max_vacancies
\* records were collected and page * per_page < total_found, and in scenario A
\* exactly two pages are requested, the second one asking only for the
\* records that are still missing, and max_vacancies records are returned.
PageExtent ==
    /\ rpc = "fetch" => Len(data) < max_vacancies /\ page * PerPage < total_found
    /\ ScenarioA /\ Len(page_requests) >= 2 =>
           page_requests[2].per_page = max_vacancies - PerPage
    /\ ScenarioA /\ rpc = "returned" =>
           Len(page_requests) = 2 /\ Len(result) = max_vacancies

\* C21 amended: a page is requested only while fewer than max_vacancies
\* records were collected and page * per_page < total_found, the k-th request
\* asks for page k - 1 with the configured per_page, and in scenario A exactly
\* two pages are requested and max_vacancies records are returned.
PageExtentAmended ==
    /\ rpc = "fetch" => Len(data) < max_vacancies /\ page * PerPage < total_found
    /\ \A k \in DOMAIN page_requests :
           page_requests[k] = [page |-> k - 1, per_page |-> PerPage]
    /\ ScenarioA /\ rpc = "returned" =>
           Len(page_requests) = 2 /\ Len(result) = max_vacancies

\* Scenario A with a third page left unrequested at the service
PageExtentWitness ==
    /\ rpc = "returned"
    /\ ScenarioA
    /\ total_found > 2 * PerPage
    /\ Len(page_requests) = 2
    /\ page_requests[2].per_page = PerPage
    /\ Len(data) = 2 * PerPage
    /\ Len(result) = max_vacancies

\* C22: when the probe is answered with a status other than 200, no page and
\* no detail is requested, the loop is not entered and the run returns an
\* empty list with total_found = 0.
ProbeFailure ==
    probe_status \notin {0, 200} =>
        /\ total_found = 0
        /\ page_requests = <<>>
        /\ detail_requests = 0
        /\ dcall = <<>>
        /\ rpc \in {"return", "returned"}
        /\ data = <<>>
        /\ result = <<>>

ProbeFailureWitness ==
    /\ probe_status = 500
    /\ rpc = "returned"
    /\ result = <<>>
    /\ total_found = 0
    /\ page_requests = <<>>

\* C23: no two records of the list returned by one run have the same id.
IdUnique ==
    rpc = "returned" =>
        \A i, j \in DOMAIN result : result[i].id = result[j].id => i = j

\* The name, lower-cased, contains a substring of the denylist
Denylisted(name) == \E word \in exclude_words : Contains(lower(name), word)

\* C24: no collected or returned record has a denylisted name, and the
\* summaries that leave the denylist step are exactly the summaries that
\* entered it without a denylisted name, in their order.
DenylistFilter ==
    /\ \A i \in DOMAIN data : ~Denylisted(data[i].name)
    /\ \A i \in DOMAIN result : ~Denylisted(result[i].name)
    /\ survivors = SelectSeq(deduped, LAMBDA v : ~Denylisted(v.name))

\* A page listed "JrC#" and another vacancy; only the other one was kept and
\* returned.
DenylistFilterWitness ==
    /\ rpc = "returned"
    /\ Len(deduped) = 2
    /\ \E i \in DOMAIN deduped : Denylisted(deduped[i].name)
    /\ Len(survivors) = 1
    /\ Len(result) >= 1
    /\ result[Len(result)].id = survivors[1].id

\* The summaries of the service that have a denylisted name
DeniedSummaries == {v \in Summaries : Denylisted(v.name)}

\* C25: without required skills no detail is requested; with them, the
\* detail calls of a page are one per summary that passed the dedup and the
\* denylist, and each of them sends at most one request.
DetailMinimal ==
    /\ required_skills.list = <<>> => detail_requests = 0 /\ dcall = <<>>
    /\ dcall # <<>> =>
        /\ DOMAIN dcall = DOMAIN survivors
        /\ DOMAIN sent = DOMAIN survivors
        /\ \A i \in DOMAIN survivors :
            /\ int(survivors[i].id) \notin seen_ids
            /\ survivors[i] \notin DeniedSummaries
            /\ sent[i] <= 1
            /\ dcall[i] \in {"new", "sleep"} => sent[i] = 0
    /\ detail_requests <= processed_count

\* A page of "JrC#" and one other vacancy: the only request sent is the one
\* for the other vacancy.
DetailMinimalWitness ==
    /\ rpc = "gather"
    /\ Len(fetched) = 2
    /\ \E i \in DOMAIN fetched : Denylisted(fetched[i].name)
    /\ Len(survivors) = 1
    /\ sent = <<1>>
    /\ dcall = <<"done">>
    /\ detail_requests = 1

\* C26: whatever the order in which the detail calls of a page are answered,
\* the detail at position i is the one of the i-th surviving summary, and
\* every record collected with required skills carries the description of
\* the detail that the service holds for the record's own id.
Reassociation ==
    /\ dcall # <<>> =>
        /\ DOMAIN details = DOMAIN survivors
        /\ \A i \in DOMAIN details :
               details[i] \in {NoDetail, ServiceDetail(survivors[i].id)}
    /\ required_skills.list # <<>> =>
           \A k \in DOMAIN data :
               /\ data[k].description = clean_html(ServiceDetail(data[k].id).description)
               /\ has_required_skills(ServiceDetail(data[k].id), required_skills.list)

\* The second call of a page was answered while the first is still waiting
ReassociationWitness ==
    /\ rpc = "gather"
    /\ Len(survivors) = 2
    /\ dcall[2] = "done"
    /\ dcall[1] \in {"new", "sleep", "inflight"}
    /\ details[1] = NoDetail
    /\ details[2] = ServiceDetail(survivors[2].id)
    /\ details[2] # ServiceDetail(survivors[1].id)

\* C27: every HTTP call that is open (probe, page or detail) was dispatched
\* by a caller that the gate admitted and that slept the delay: there are
\* never more open calls than slots taken.
Throttle == InFlight <= max_concurrent - permits

\* C28: the template file is read at most once, however many workers ask for
\* the letter and however their first calls interleave.
TemplateReadOnce == file_reads <= 1

\* C29: once handle_search_and_save has run its saving step, it has
\* completed without an exception and the vacancies table holds exactly the
\* records that the retrieval returned; an interrupted search leaves the
\* table as the last save left it.
SearchSaveReplaces ==
    (hpc \in {"done", "raised"} /\ outs # <<>>) =>
        /\ hpc = "done"
        /\ {int(row.id) : row \in table} = Range(outs[Len(outs)])

\* C30: whatever the service answers, get_vacancies_async returns, and it
\* never sends more than ceil(total_found / per_page) page requests.
RetrievalTerminates ==
    /\ [](Len(page_requests) <= Ceil(total_found, PerPage))
    /\ <>(rpc = "returned")

\* Every page the probe announced was requested, none of them gave a record,
\* and the call returned.
RetrievalTerminatesWitness ==
    /\ rpc = "returned"
    /\ total_found = MaxFound
    /\ Len(page_requests) = Ceil(MaxFound, PerPage)
    /\ page = Len(page_requests)
    /\ data = <<>>
    /\ result = <<>>

\* Whether the relocation control appears or not, check_and_click_apply
\* gives the same success and the same status.
RelocationNeutral ==
    \A shown \in Pages :
        shown.apply = "clickable" =>
            LET other == [shown EXCEPT !.relocate = ~ shown.relocate]
            IN  /\ check_and_click_apply(shown)[1] = check_and_click_apply(other)[1]
                /\ check_and_click_apply(shown)[2] = check_and_click_apply(other)[2]

\* C31: a vacancy is counted as applied only when, for that vacancy and in
\* this order, the apply control was clicked, the letter was typed and the
\* submit control was clicked, with or without a click on the relocation
\* control between the first two; the relocation control does not change
\* the outcome.
AppliedSequence ==
    /\ RelocationNeutral
    /\ last.status = "applied" =>
        /\ last.acts \in {<<"apply_click", "send_keys", "submit_click">>,
                          <<"apply_click", "relocate_click", "send_keys", "submit_click">>}
        /\ ~ last.raised
        /\ counters[last.worker]["applied"] >= 1

\* A vacancy whose page showed the relocation control was counted as applied
AppliedSequenceWitness ==
    /\ last.status = "applied"
    /\ last.acts = <<"apply_click", "relocate_click", "send_keys", "submit_click">>
    /\ counters[last.worker]["applied"] = 1

\* C32: called with an empty list, apply_to_vacancies_parallel_batched
\* completes without an exception, opens no browser session and reports
\* four counters of 0.
EmptyInput ==
    (vacancies = <<>> /\ mainpc # "start") =>
        /\ mainpc = "done"
        /\ sessions = {}
        /\ quits = <<>>
        /\ reported = ZeroStats
====
